---------------------------- MODULE Spec2Model ----------------------------
(***************************************************************************)
(* cam - the libcamera command-line controller (src/cam/main.cpp).         *)
(*                                                                         *)
(* The model follows the control plane of CamApp: main() calls init(),     *)
(* installs the SIGINT handler and calls exec(), which runs the plan of    *)
(* CamApp::run() (steps 1-6) and then cleanup().  The main thread's        *)
(* position is pc.  Three kinds of asynchronous events act on the state:   *)
(* the session's captureDone notification, the camera manager's            *)
(* cameraAdded / cameraRemoved notifications, and SIGINT.                  *)
(*                                                                         *)
(* The event loop (event_loop.h) and the capture session                   *)
(* (camera_session.h) are not part of main.cpp; the model keeps of them    *)
(* only what the specification states: exec() blocks until an exit request *)
(* is observed, notifications are dispatched on the thread blocked in      *)
(* exec(), and whether an exit request posted while no exec() is blocked   *)
(* is latched for the next exec() is left open (latchExit).                *)
(*                                                                         *)
(* loopUsers_ is a 32-bit unsigned counter.  It is held as the two's       *)
(* complement reading of its bit pattern: the unsigned value u is held as  *)
(* u when u < 2^31 and as u - 2^32 otherwise, so that ++ and -- are +1 and *)
(* -1 (wrapping at the ends of the range), UINT_MAX is -1, "non-zero" is   *)
(* # 0 and "the counter has wrapped below zero" is < 0.                    *)
(***************************************************************************)
EXTENDS Integers, FiniteSets, Sequences, TLC

(* errno values and exit statuses used by main.cpp *)
EINTR == 4
ENODEV == 19
EINVAL == 22
EXIT_FAILURE == 1

(* bounds of the model *)
MaxGarbage == 2       \* the indeterminate initial loopUsers_ is drawn from -MaxGarbage..MaxGarbage
MaxCompletions == 3   \* captureDone notifications the session delivers in one run
MaxSignals == 2       \* SIGINTs delivered in one run
MaxHotplug == 1       \* cameraAdded / cameraRemoved notifications of each kind in one run

INT_MAX == 2147483647

VARIABLES
    pc,             \* position of the main thread
    options_,       \* CamApp::options_
    cm_,            \* CamApp::cm_ : "null" or "created"
    cmStarted,      \* cm_->start() calls that succeeded
    cmStopped,      \* cm_->stop() calls
    loopUsers_,     \* CamApp::loopUsers_
    session,        \* run()'s local session: "null", "invalid" or "valid"
    connected,      \* session->captureDone is connected to CamApp::captureDone
    sessionStarted, \* session->start() calls that succeeded
    sessionStopped, \* session->stop() calls
    hotplug,        \* cameraAdded / cameraRemoved are connected
    exit_,          \* the event loop's pending exit request
    exitCode_,      \* the codes exec() may return: {} before any request, {c} after exit(c)
    latchExit,      \* an exit request posted outside exec() survives until the next exec()
    loopEntered,    \* loop_.exec() calls
    loopReturned,   \* loop_.exec() returns
    sigInstalled,   \* sigaction(SIGINT) has installed signalHandler
    ret,            \* the value init() / run() returns
    exitStatus,     \* the value main() returns (read only when pc = "done")
    usagePrinted,   \* parser.usage() was called
    completions,    \* captureDone notifications delivered so far
    reachedZero,    \* some captureDone notification brought loopUsers_ from 1 to 0
    signals,        \* signalHandler invocations so far
    signalsInLoop,  \* of which while exec() was blocked
    added,          \* cameraAdded notifications delivered
    removed         \* cameraRemoved notifications delivered

vars == <<pc, options_, cm_, cmStarted, cmStopped, loopUsers_, session, connected,
          sessionStarted, sessionStopped, hotplug, exit_, exitCode_, latchExit,
          loopEntered,
          loopReturned, sigInstalled, ret, exitStatus, usagePrinted, completions,
          reachedZero, signals, signalsInLoop, added, removed>>

-----------------------------------------------------------------------------
(* The option set: OptionsParser::Options reduced to its presence queries.   *)
(* "other" stands for the options that no plan step reads (file, stream,     *)
(* strict-formats, metadata) but that make the set non-empty.                *)

OptionNames == {"help", "list", "camera", "listControls", "listProperties",
                "info", "capture", "monitor", "other"}

NoOptions == [n \in OptionNames |-> FALSE]

isSet(o, n) == o.set[n]

empty(o) == \A n \in OptionNames : ~o.set[n]

valid(o) == o.valid

(* what parser.parse(argc, argv) can return: a parse failure, or any set *)
ParseResults ==
    {[valid |-> FALSE, set |-> NoOptions]} \cup
    {[valid |-> TRUE, set |-> s] : s \in [OptionNames -> BOOLEAN]}

(* parseOptions as it would be with the two usage outcomes exchanged *)
parseOptions_swapped(o) ==
    IF ~valid(o) THEN -EINVAL
    ELSE IF empty(o) \/ isSet(o, "help")
         THEN (IF empty(o) THEN -EINTR ELSE -EINVAL)
         ELSE 0

(* CamApp::parseOptions, lines 145-154: its return value *)
parseOptions(o) ==
    IF ~valid(o) THEN -EINVAL
    ELSE IF empty(o) \/ isSet(o, "help")
         THEN (IF empty(o) THEN -EINVAL ELSE -EINTR)
         ELSE 0

(* parser.usage() is called on exactly the second branch of parseOptions *)
usageShown(o) == valid(o) /\ (empty(o) \/ isSet(o, "help"))

(* what cm_->start() and session->start() can return *)
StartResults == {0, -EINVAL}

(* the indeterminate value loopUsers_ holds after CamApp::CamApp() *)
Indeterminate == (0 - MaxGarbage)..MaxGarbage

(* std::atomic_uint ++ and -- on the two's complement reading *)
Incr(u) == IF u = INT_MAX THEN (0 - INT_MAX) - 1 ELSE u + 1
Decr(u) == IF u = (0 - INT_MAX) - 1 THEN INT_MAX ELSE u - 1


-----------------------------------------------------------------------------
(* The state after `CamApp app;` in main(): the constructor sets only app_,  *)
(* so loopUsers_ is left indeterminate; every other member is empty.         *)
Init ==
    /\ pc = "init"
    /\ options_ = [valid |-> TRUE, set |-> NoOptions]
    /\ cm_ = "null"
    /\ cmStarted = 0
    /\ cmStopped = 0
    /\ loopUsers_ \in Indeterminate
    /\ session = "null"
    /\ connected = FALSE
    /\ sessionStarted = 0
    /\ sessionStopped = 0
    /\ hotplug = FALSE
    /\ exit_ = FALSE
    /\ exitCode_ = {}
    /\ latchExit \in BOOLEAN
    /\ loopEntered = 0
    /\ loopReturned = 0
    /\ sigInstalled = FALSE
    /\ ret = 0
    /\ exitStatus = 0
    /\ usagePrinted = FALSE
    /\ completions = 0
    /\ reachedZero = FALSE
    /\ signals = 0
    /\ signalsInLoop = 0
    /\ added = 0
    /\ removed = 0

(* groups of variables an action leaves alone *)
cmVars == <<cm_, cmStarted, cmStopped>>
sessionVars == <<session, connected, sessionStarted, sessionStopped>>
loopVars == <<exit_, exitCode_, latchExit, loopEntered, loopReturned>>
eventVars == <<completions, reachedZero, signals, signalsInLoop, added, removed>>

-----------------------------------------------------------------------------
(* CamApp::init, lines 68-86, called from main() line 309.                   *)
init ==
    /\ pc = "init"
    /\ \E o \in ParseResults, r \in StartResults :
        /\ options_' = o
        /\ usagePrinted' = usageShown(o)
        /\ IF parseOptions(o) < 0
           THEN /\ ret' = parseOptions(o)
                /\ UNCHANGED cmVars
                /\ pc' = "initFailed"
           ELSE /\ cm_' = "created"
                /\ cmStarted' = IF r = 0 THEN cmStarted + 1 ELSE cmStarted
                /\ UNCHANGED cmStopped
                /\ ret' = r
                /\ pc' = IF r # 0 THEN "initFailed" ELSE "sigaction"
    /\ UNCHANGED <<loopUsers_, sessionVars, hotplug, loopVars, sigInstalled,
                   exitStatus, eventVars>>

(* main(), lines 310-311: the exit status after a failed init()              *)
initStatus(r) == IF r = -EINTR THEN 0 ELSE EXIT_FAILURE

mainInitFailed ==
    /\ pc = "initFailed"
    /\ exitStatus' = initStatus(ret)
    /\ pc' = "done"
    /\ UNCHANGED <<options_, cmVars, loopUsers_, sessionVars, hotplug, loopVars,
                   sigInstalled, ret, usagePrinted, eventVars>>

(* main(), lines 313-315: install the SIGINT handler, then call exec()       *)
mainSigaction ==
    /\ pc = "sigaction"
    /\ sigInstalled' = TRUE
    /\ pc' = "list"
    /\ UNCHANGED <<options_, cmVars, loopUsers_, sessionVars, hotplug, loopVars,
                   ret, exitStatus, usagePrinted, eventVars>>

-----------------------------------------------------------------------------
(* CamApp::run, lines 173-257, one action per numbered step.  A step that    *)
(* returns early stores the returned value in ret and hands control to       *)
(* exec()'s cleanup() (pc = "cleanup").                                      *)

(* 1. List all cameras, lines 177-186: prints only.                          *)
runList ==
    /\ pc = "list"
    /\ pc' = "createSession"
    /\ UNCHANGED <<options_, cmVars, loopUsers_, sessionVars, hotplug, loopVars,
                   sigInstalled, ret, exitStatus, usagePrinted, eventVars>>

(* 2. Create the camera session, lines 188-202.                              *)
runCreateSession ==
    /\ pc = "createSession"
    /\ IF isSet(options_, "camera")
       THEN \E ok \in BOOLEAN :
            IF ~ok
            THEN /\ session' = "invalid"
                 /\ UNCHANGED connected
                 /\ ret' = -EINVAL
                 /\ pc' = "cleanup"
            ELSE /\ session' = "valid"
                 /\ connected' = TRUE
                 /\ UNCHANGED ret
                 /\ pc' = "printInfo"
       ELSE /\ UNCHANGED <<session, connected, ret>>
            /\ pc' = "printInfo"
    /\ UNCHANGED <<options_, cmVars, loopUsers_, sessionStarted, sessionStopped,
                   hotplug, loopVars, sigInstalled, exitStatus, usagePrinted,
                   eventVars>>

(* 3. Print camera information, lines 204-220.                               *)
infoRequested(o) ==
    isSet(o, "listControls") \/ isSet(o, "listProperties") \/ isSet(o, "info")

runPrintInfo ==
    /\ pc = "printInfo"
    /\ IF infoRequested(options_) /\ session = "null"
       THEN /\ ret' = -EINVAL
            /\ pc' = "cleanup"
       ELSE /\ UNCHANGED ret
            /\ pc' = "startCapture"
    /\ UNCHANGED <<options_, cmVars, loopUsers_, sessionVars, hotplug, loopVars,
                   sigInstalled, exitStatus, usagePrinted, eventVars>>

(* step 4 as it would be if the missing-camera branch printed its message    *)
(* and fell through instead of returning                                     *)
runStartCapture_noReturn ==
    /\ pc = "startCapture"
    /\ IF isSet(options_, "capture")
       THEN IF session = "null"
            THEN /\ ret' = -ENODEV
                 /\ pc' = "monitor"
                 /\ UNCHANGED <<sessionStarted, loopUsers_>>
            ELSE \E r \in StartResults :
                 IF r # 0
                 THEN /\ ret' = r
                      /\ pc' = "cleanup"
                      /\ UNCHANGED <<sessionStarted, loopUsers_>>
                 ELSE /\ sessionStarted' = sessionStarted + 1
                      /\ loopUsers_' = Incr(loopUsers_)
                      /\ UNCHANGED ret
                      /\ pc' = "monitor"
       ELSE /\ UNCHANGED <<ret, sessionStarted, loopUsers_>>
            /\ pc' = "monitor"
    /\ UNCHANGED <<options_, cmVars, session, connected, sessionStopped, hotplug,
                   loopVars, sigInstalled, exitStatus, usagePrinted, eventVars>>

(* step 4 as it would be if the capture were counted before the session is   *)
(* started                                                                   *)
runStartCapture_countFirst ==
    /\ pc = "startCapture"
    /\ IF isSet(options_, "capture")
       THEN IF session = "null"
            THEN /\ ret' = -ENODEV
                 /\ pc' = "cleanup"
                 /\ UNCHANGED <<sessionStarted, loopUsers_>>
            ELSE \E r \in StartResults :
                 /\ loopUsers_' = Incr(loopUsers_)
                 /\ IF r # 0
                    THEN /\ ret' = r
                         /\ pc' = "cleanup"
                         /\ UNCHANGED sessionStarted
                    ELSE /\ sessionStarted' = sessionStarted + 1
                         /\ UNCHANGED ret
                         /\ pc' = "monitor"
       ELSE /\ UNCHANGED <<ret, sessionStarted, loopUsers_>>
            /\ pc' = "monitor"
    /\ UNCHANGED <<options_, cmVars, session, connected, sessionStopped, hotplug,
                   loopVars, sigInstalled, exitStatus, usagePrinted, eventVars>>

(* 4. Start capture, lines 222-236.                                          *)
runStartCapture ==
    /\ pc = "startCapture"
    /\ IF isSet(options_, "capture")
       THEN IF session = "null"
            THEN /\ ret' = -ENODEV
                 /\ pc' = "cleanup"
                 /\ UNCHANGED <<sessionStarted, loopUsers_>>
            ELSE \E r \in StartResults :
                 IF r # 0
                 THEN /\ ret' = r
                      /\ pc' = "cleanup"
                      /\ UNCHANGED <<sessionStarted, loopUsers_>>
                 ELSE /\ sessionStarted' = sessionStarted + 1
                      /\ loopUsers_' = Incr(loopUsers_)
                      /\ UNCHANGED ret
                      /\ pc' = "monitor"
       ELSE /\ UNCHANGED <<ret, sessionStarted, loopUsers_>>
            /\ pc' = "monitor"
    /\ UNCHANGED <<options_, cmVars, session, connected, sessionStopped, hotplug,
                   loopVars, sigInstalled, exitStatus, usagePrinted, eventVars>>

(* 5. Enable hotplug monitoring, lines 238-247.                              *)
runMonitor ==
    /\ pc = "monitor"
    /\ IF isSet(options_, "monitor")
       THEN /\ hotplug' = TRUE
            /\ loopUsers_' = Incr(loopUsers_)
       ELSE UNCHANGED <<hotplug, loopUsers_>>
    /\ pc' = "wait"
    /\ UNCHANGED <<options_, cmVars, sessionVars, loopVars, sigInstalled, ret,
                   exitStatus, usagePrinted, eventVars>>

(* The wait point, lines 249-250: `if (loopUsers_) loop_.exec();`.  Entering *)
(* exec() keeps a latched exit request or drops it, as latchExit says.       *)
runWait ==
    /\ pc = "wait"
    /\ IF loopUsers_ # 0
       THEN /\ loopEntered' = loopEntered + 1
            /\ exit_' = (latchExit /\ exit_)
            /\ exitCode_' = IF latchExit /\ exit_ THEN exitCode_ ELSE {}
            /\ pc' = "loop"
       ELSE /\ UNCHANGED <<loopEntered, exit_, exitCode_>>
            /\ pc' = "stopCapture"
    /\ UNCHANGED <<options_, cmVars, loopUsers_, sessionVars, hotplug, latchExit,
                   loopReturned, sigInstalled, ret, exitStatus, usagePrinted,
                   eventVars>>

(* loop_.exec() returns once it has observed an exit request.                *)
loopExecReturn ==
    /\ pc = "loop"
    /\ exit_
    /\ exit_' = FALSE
    /\ loopReturned' = loopReturned + 1
    /\ pc' = "stopCapture"
    /\ UNCHANGED <<options_, cmVars, loopUsers_, sessionVars, hotplug, exitCode_,
                   latchExit,
                   loopEntered, sigInstalled, ret, exitStatus, usagePrinted,
                   eventVars>>

(* step 6 as it would be if run() reported an interrupted loop as -EINTR     *)
runStopCapture_eintr ==
    /\ pc = "stopCapture"
    /\ sessionStopped' = IF isSet(options_, "capture")
                         THEN sessionStopped + 1 ELSE sessionStopped
    /\ ret' = IF signals > 0 THEN -EINTR ELSE 0
    /\ pc' = "cleanup"
    /\ UNCHANGED <<options_, cmVars, loopUsers_, session, connected,
                   sessionStarted, hotplug, loopVars, sigInstalled, exitStatus,
                   usagePrinted, eventVars>>

(* step 6 as it would be without the test of the capture option              *)
runStopCapture_always ==
    /\ pc = "stopCapture"
    /\ sessionStopped' = sessionStopped + 1
    /\ ret' = 0
    /\ pc' = "cleanup"
    /\ UNCHANGED <<options_, cmVars, loopUsers_, session, connected,
                   sessionStarted, hotplug, loopVars, sigInstalled, exitStatus,
                   usagePrinted, eventVars>>

(* 6. Stop capture, lines 252-256, and `return 0`.                           *)
runStopCapture ==
    /\ pc = "stopCapture"
    /\ sessionStopped' = IF isSet(options_, "capture")
                         THEN sessionStopped + 1 ELSE sessionStopped
    /\ ret' = 0
    /\ pc' = "cleanup"
    /\ UNCHANGED <<options_, cmVars, loopUsers_, session, connected,
                   sessionStarted, hotplug, loopVars, sigInstalled, exitStatus,
                   usagePrinted, eventVars>>

(* exec() as it would be if it returned a failure of run() before cleanup()  *)
cleanup_onSuccessOnly ==
    /\ pc = "cleanup"
    /\ cmStopped' = IF ret = 0 THEN cmStopped + 1 ELSE cmStopped
    /\ pc' = "execReturned"
    /\ UNCHANGED <<options_, cm_, cmStarted, loopUsers_, sessionVars, hotplug,
                   loopVars, sigInstalled, ret, exitStatus, usagePrinted,
                   eventVars>>

(* CamApp::exec, lines 97-100, after run() returned: cleanup(), lines 88-91. *)
cleanup ==
    /\ pc = "cleanup"
    /\ cmStopped' = cmStopped + 1
    /\ pc' = "execReturned"
    /\ UNCHANGED <<options_, cm_, cmStarted, loopUsers_, sessionVars, hotplug,
                   loopVars, sigInstalled, ret, exitStatus, usagePrinted,
                   eventVars>>

(* main(), lines 317-320: the exit status after exec()                       *)
execStatus(r) == IF r # 0 THEN EXIT_FAILURE ELSE 0

mainReturn ==
    /\ pc = "execReturned"
    /\ exitStatus' = execStatus(ret)
    /\ pc' = "done"
    /\ UNCHANGED <<options_, cmVars, loopUsers_, sessionVars, hotplug, loopVars,
                   sigInstalled, ret, usagePrinted, eventVars>>

-----------------------------------------------------------------------------
(* Asynchronous events.                                                      *)

(* captureDone as it would be if it asked the loop to exit on every          *)
(* notification, whatever the counter                                        *)
captureDoneExits_always(n) == TRUE

(* captureDone as it would be with the test off by one                       *)
captureDoneExits_offByOne(n) == n = 1

(* CamApp::captureDone, lines 167-171: the test of the decremented counter   *)
captureDoneExits(n) == n = 0

(* The session is capturing between a successful start() and stop(); the     *)
(* notification is dispatched on the thread blocked in exec().               *)
captureDone ==
    /\ pc = "loop"
    /\ connected
    /\ sessionStarted > sessionStopped
    /\ completions < MaxCompletions
    /\ completions' = completions + 1
    /\ loopUsers_' = Decr(loopUsers_)
    /\ reachedZero' = (reachedZero \/ loopUsers_ = 1)
    /\ exit_' = (exit_ \/ captureDoneExits(Decr(loopUsers_)))
    /\ exitCode_' = IF captureDoneExits(Decr(loopUsers_)) THEN {0} ELSE exitCode_
    /\ UNCHANGED <<pc, options_, cmVars, sessionVars, hotplug, latchExit,
                   loopEntered, loopReturned, sigInstalled, ret, exitStatus,
                   usagePrinted, signals, signalsInLoop, added, removed>>

(* CamApp::cameraAdded, lines 157-160: prints only.                          *)
cameraAdded ==
    /\ pc = "loop"
    /\ hotplug
    /\ added < MaxHotplug
    /\ added' = added + 1
    /\ UNCHANGED <<pc, options_, cmVars, loopUsers_, sessionVars, hotplug,
                   loopVars, sigInstalled, ret, exitStatus, usagePrinted,
                   completions, reachedZero, signals, signalsInLoop, removed>>

(* cameraRemoved as it would be if a removal were counted as a completion    *)
cameraRemoved_counts ==
    /\ pc = "loop"
    /\ hotplug
    /\ removed < MaxHotplug
    /\ removed' = removed + 1
    /\ loopUsers_' = Decr(loopUsers_)
    /\ exit_' = (exit_ \/ Decr(loopUsers_) = 0)
    /\ UNCHANGED <<pc, options_, cmVars, sessionVars, hotplug, exitCode_,
                   latchExit, loopEntered, loopReturned, sigInstalled, ret,
                   exitStatus, usagePrinted, completions, reachedZero, signals,
                   signalsInLoop, added>>

(* CamApp::cameraRemoved, lines 162-165: prints only.                        *)
cameraRemoved ==
    /\ pc = "loop"
    /\ hotplug
    /\ removed < MaxHotplug
    /\ removed' = removed + 1
    /\ UNCHANGED <<pc, options_, cmVars, loopUsers_, sessionVars, hotplug,
                   loopVars, sigInstalled, ret, exitStatus, usagePrinted,
                   completions, reachedZero, signals, signalsInLoop, added>>

(* loop_.exit() is called without a code: the code is the default argument   *)
(* of EventLoop::exit, which main.cpp does not show, so any code may result  *)
UnspecifiedCode == {0, EXIT_FAILURE}

(* CamApp::quit, lines 103-106: loop_.exit()                                 *)
quit ==
    /\ exit_' = TRUE
    /\ exitCode_' = UnspecifiedCode

(* signalHandler as it would be if it stopped the session itself             *)
signalHandler_stops ==
    /\ sigInstalled
    /\ pc # "done"
    /\ signals < MaxSignals
    /\ signals' = signals + 1
    /\ signalsInLoop' = IF pc = "loop" THEN signalsInLoop + 1 ELSE signalsInLoop
    /\ quit
    /\ sessionStopped' = IF sessionStarted > 0
                         THEN sessionStopped + 1 ELSE sessionStopped
    /\ UNCHANGED <<pc, options_, cmVars, loopUsers_, session, connected,
                   sessionStarted, hotplug, latchExit, loopEntered, loopReturned,
                   sigInstalled, ret, exitStatus, usagePrinted, completions,
                   reachedZero, added, removed>>

(* signalHandler as it would be if it asked for exit only while the counter  *)
(* is non-zero                                                               *)
signalHandler_guarded ==
    /\ sigInstalled
    /\ pc # "done"
    /\ signals < MaxSignals
    /\ signals' = signals + 1
    /\ signalsInLoop' = IF pc = "loop" THEN signalsInLoop + 1 ELSE signalsInLoop
    /\ IF loopUsers_ # 0 THEN quit ELSE UNCHANGED <<exit_, exitCode_>>
    /\ UNCHANGED <<pc, options_, cmVars, loopUsers_, sessionVars, hotplug,
                   latchExit, loopEntered, loopReturned, sigInstalled, ret,
                   exitStatus, usagePrinted, completions, reachedZero, added,
                   removed>>

(* signalHandler, lines 298-302, run at any point once installed and until   *)
(* main() has returned.                                                      *)
signalHandler ==
    /\ sigInstalled
    /\ pc # "done"
    /\ signals < MaxSignals
    /\ signals' = signals + 1
    /\ signalsInLoop' = IF pc = "loop" THEN signalsInLoop + 1 ELSE signalsInLoop
    /\ quit
    /\ UNCHANGED <<pc, options_, cmVars, loopUsers_, sessionVars, hotplug,
                   latchExit, loopEntered, loopReturned, sigInstalled, ret,
                   exitStatus, usagePrinted, completions, reachedZero, added,
                   removed>>

-----------------------------------------------------------------------------
MainThread ==
    \/ init
    \/ mainInitFailed
    \/ mainSigaction
    \/ runList
    \/ runCreateSession
    \/ runPrintInfo
    \/ runStartCapture
    \/ runMonitor
    \/ runWait
    \/ loopExecReturn
    \/ runStopCapture
    \/ cleanup
    \/ mainReturn

Next ==
    \/ MainThread
    \/ captureDone
    \/ cameraAdded
    \/ cameraRemoved
    \/ signalHandler

Spec == Init /\ [][Next]_vars

(* The main thread is never suspended for good: each of its steps is taken   *)
(* once it can be, the return of exec() included.                            *)
FairSpec == Spec /\ WF_vars(MainThread)

TypeOK ==
    /\ pc \in {"init", "initFailed", "sigaction", "list", "createSession",
               "printInfo", "startCapture", "monitor", "wait", "loop",
               "stopCapture", "cleanup", "execReturned", "done"}
    /\ options_ \in ParseResults
    /\ cm_ \in {"null", "created"}
    /\ session \in {"null", "invalid", "valid"}
    /\ loopUsers_ \in Int
    /\ exitStatus \in {0, EXIT_FAILURE}

-----------------------------------------------------------------------------
(* State predicates shared by the properties below.                          *)

(* run() was called and has passed the given step (main() calls exec() only  *)
(* after it has installed the handler)                                       *)
pastPrintInfo ==
    sigInstalled /\ pc \in {"startCapture", "monitor", "wait", "loop",
                            "stopCapture", "cleanup", "execReturned", "done"}
pastStartCapture ==
    sigInstalled /\ pc \in {"monitor", "wait", "loop", "stopCapture", "cleanup",
                            "execReturned", "done"}
runReturned == sigInstalled /\ pc \in {"cleanup", "execReturned", "done"}

(* the fatal conditions of run(), lines 193, 208, 224 and 230 *)
sessionInvalid == session = "invalid"
infoWithoutSession ==
    pastPrintInfo /\ infoRequested(options_) /\ session = "null"
captureWithoutSession ==
    pastStartCapture /\ isSet(options_, "capture") /\ session = "null"
startFailed ==
    pastStartCapture /\ isSet(options_, "capture") /\ session = "valid"
        /\ sessionStarted = 0
planFailed ==
    sessionInvalid \/ infoWithoutSession \/ captureWithoutSession \/ startFailed

-----------------------------------------------------------------------------
(* C1: no capture-completion notification ever decrements loopUsers_ below   *)
(* zero: every notification finds the counter greater than zero, so that the *)
(* unsigned counter never wraps.                                             *)
C1_NoCompletionBelowZero ==
    [][completions' = completions + 1 => loopUsers_ > 0 /\ loopUsers_' >= 0]_vars

-----------------------------------------------------------------------------
(* C2: exec() returns if and only if a completion notification took the      *)
(* counter from 1 to 0 or a signal posted an exit request.  It has not       *)
(* returned while neither has happened (a signal delivered before exec()     *)
(* counts only where the request is latched), and once either happens while  *)
(* exec() is blocked, exec() returns.                                        *)
C2_LoopReturnsIffExitEvent ==
    /\ [](loopReturned > 0 =>
            reachedZero \/ signalsInLoop > 0 \/ (latchExit /\ signals > 0))
    /\ ((pc = "loop" /\ (reachedZero \/ signalsInLoop > 0)) ~> loopReturned = 1)

(* exec() has returned on the counter's transition to 0 alone, after an      *)
(* earlier completion and hotplug notifications had left it blocked          *)
C2_Witness ==
    /\ loopReturned = 1
    /\ reachedZero
    /\ signals = 0
    /\ completions = 2
    /\ added = 1
    /\ removed = 1

-----------------------------------------------------------------------------
(* C3: exec() is entered if and only if the counter is non-zero at the wait  *)
(* point, that is, exactly when capture was started or monitoring enabled.   *)
C3_LoopEnteredIffActivity ==
    /\ loopEntered <= 1
    /\ pc = "loop" /\ completions = 0 => loopUsers_ # 0
    /\ pc = "stopCapture" /\ loopEntered = 0 => loopUsers_ = 0
    /\ pc \in {"loop", "stopCapture"} =>
           (loopEntered = 1 <=> (sessionStarted = 1 \/ hotplug))
    /\ loopEntered = 1 => (sessionStarted = 1 \/ hotplug)

-----------------------------------------------------------------------------
(* C4: when capture was started, session->stop() is called exactly once,     *)
(* after exec() has returned and before run() returns.                       *)
C4_StopOnceAfterLoop ==
    /\ sessionStopped <= 1
    /\ sessionStopped = 1 => sessionStarted = 1 /\ loopReturned = 1 /\ runReturned
    /\ runReturned /\ sessionStarted = 1 => sessionStopped = 1

-----------------------------------------------------------------------------
(* C5 as stated: whenever the SIGINT handler has run, main() returns 0.      *)
C5_SignalAlwaysExitZero ==
    pc = "done" /\ signals > 0 => exitStatus = 0

(* C5 as amended: whenever the SIGINT handler has run, main() returns 0      *)
(* unless run() hit one of its fatal conditions, and EXIT_FAILURE if it did. *)
C5_SignalExitZeroUnlessFatal ==
    pc = "done" /\ signals > 0 =>
        /\ ~planFailed => exitStatus = 0
        /\ planFailed => exitStatus = EXIT_FAILURE

(* a monitoring run that a signal alone has ended, and that returned 0 *)
C5_Witness ==
    /\ pc = "done"
    /\ signalsInLoop > 0
    /\ loopReturned = 1
    /\ ~reachedZero
    /\ ~planFailed
    /\ exitStatus = 0

-----------------------------------------------------------------------------
(* C6: with capture started and monitoring enabled the counter is 2 when     *)
(* exec() is entered; one completion leaves it at 1 with exec() still        *)
(* blocked; exec() returns only after a second completion or a signal.       *)
C6_CaptureAndMonitor ==
    sessionStarted = 1 /\ hotplug =>
        /\ pc = "loop" /\ completions = 0 => loopUsers_ = 2
        /\ loopEntered = 1 /\ completions = 1 /\ signals = 0 =>
               loopUsers_ = 1 /\ pc = "loop" /\ ~exit_
        /\ loopReturned = 1 => completions >= 2 \/ signals > 0

-----------------------------------------------------------------------------
(* C7: in a run that only monitors, the counter is 1 for as long as exec()   *)
(* is blocked, exec() returns only after a signal, and run() returns (and    *)
(* main() returns 0) only after a signal.                                    *)
C7_MonitorOnly ==
    hotplug /\ ~isSet(options_, "capture") =>
        /\ pc = "loop" => loopUsers_ = 1
        /\ loopReturned = 1 => signals > 0
        /\ runReturned => signals > 0
        /\ pc = "done" => exitStatus = 0

-----------------------------------------------------------------------------
(* C8: the camera manager is started at most once; it is stopped only by     *)
(* exec() after run() has returned, only if it was started, and exactly once *)
(* by the time main() returns from exec(), whether or not run() failed.      *)
C8_ManagerStoppedOnce ==
    /\ cmStarted <= 1
    /\ cmStopped <= cmStarted
    /\ cmStopped > 0 => pc \in {"execReturned", "done"}
    /\ pc \in {"execReturned", "done"} => cmStopped = cmStarted

(* a run whose plan aborted, with the manager stopped once all the same *)
C8_Witness ==
    /\ pc = "done"
    /\ planFailed
    /\ cmStarted = 1
    /\ cmStopped = 1

-----------------------------------------------------------------------------
(* C9: once run() has hit a fatal condition it has returned: the counter is  *)
(* never changed afterwards, no hotplug subscription is made, exec() is      *)
(* never entered and main() returns non-zero.  Capture requested without a   *)
(* camera returns -ENODEV.                                                   *)
C9_NoPartialSuccess ==
    /\ [](planFailed =>
            /\ runReturned
            /\ ret # 0
            /\ ~hotplug
            /\ loopEntered = 0
            /\ sessionStopped = 0
            /\ (pc = "done" => exitStatus # 0)
            /\ (captureWithoutSession /\ ~infoWithoutSession => ret = -ENODEV))
    /\ [][planFailed => loopUsers_' = loopUsers_]_vars

(* capture and monitoring requested without a camera: no loop, failure *)
C9_Witness ==
    /\ pc = "done"
    /\ captureWithoutSession
    /\ isSet(options_, "monitor")
    /\ ret = -ENODEV
    /\ exitStatus = EXIT_FAILURE

-----------------------------------------------------------------------------
(* C10: when one completion notification and one signal are delivered while  *)
(* exec() is blocked, in either order, exec() returns once, the session is   *)
(* stopped once, the counter stays >= 0 and main() returns 0.                *)
C10_CompletionSignalRace ==
    completions = 1 /\ signals = 1 /\ signalsInLoop = 1 =>
        /\ loopUsers_ >= 0
        /\ loopReturned <= 1
        /\ sessionStopped <= 1
        /\ runReturned => loopReturned = 1 /\ sessionStopped = 1
        /\ pc = "done" => exitStatus = 0

-----------------------------------------------------------------------------
(* C11: an exit request posted by the signal handler after exec() has        *)
(* returned changes nothing but the loop's pending request: the main         *)
(* thread's position, the counter, the session and the camera manager are    *)
(* left alone, session->stop() and cm_->stop() are each still called at most *)
(* once, and a run whose loop returned ends with the manager stopped once,   *)
(* the session stopped once if it was started, and exit status 0.            *)
C11_LateExitRequestNoEffect ==
    /\ [](sessionStopped <= 1 /\ cmStopped <= 1)
    /\ [][loopReturned = 1 /\ signals' = signals + 1 =>
            UNCHANGED <<pc, options_, cmVars, loopUsers_, sessionVars, hotplug,
                        loopEntered, loopReturned, ret, exitStatus>>]_vars
    /\ [](pc = "done" /\ loopReturned = 1 =>
            cmStopped = 1 /\ sessionStopped = sessionStarted /\ exitStatus = 0)

(* main() has returned with an exit request posted after exec() returned     *)
(* still pending                                                             *)
C11_Witness ==
    /\ pc = "done"
    /\ loopReturned = 1
    /\ exit_
    /\ sessionStopped = 1
    /\ cmStopped = 1
    /\ exitStatus = 0

-----------------------------------------------------------------------------
(* C13: handling cameraAdded or cameraRemoved leaves the counter, the        *)
(* session, the loop's pending exit request and its entered / returned       *)
(* status unchanged.                                                         *)
C13_HotplugChangesNothing ==
    [][added' # added \/ removed' # removed =>
          UNCHANGED <<pc, loopUsers_, sessionVars, loopVars, ret>>]_vars

(* both notifications were handled and exec() is still blocked, with no exit *)
(* request pending                                                           *)
C13_Witness ==
    /\ pc = "loop"
    /\ added = 1
    /\ removed = 1
    /\ ~exit_
    /\ loopUsers_ = 1

-----------------------------------------------------------------------------
(* C14: the signal handler posts an exit request whatever the counter is,    *)
(* and leaves the counter, the session, the option set, the camera manager   *)
(* and the main thread's position unchanged.                                 *)
C14_HandlerOnlyPostsExit ==
    [][signals' = signals + 1 =>
          /\ exit_'
          /\ UNCHANGED <<pc, options_, cmVars, loopUsers_, sessionVars, hotplug,
                         loopEntered, loopReturned, ret, exitStatus,
                         completions, added, removed>>]_vars

(* the handler has run with the counter at 0 and outside exec(), and the     *)
(* request was posted all the same                                           *)
C14_Witness ==
    /\ signals = 1
    /\ exit_
    /\ loopUsers_ = 0
    /\ loopEntered = 0

-----------------------------------------------------------------------------
(* C15: with the help option set, or with no option at all, init() prints    *)
(* the usage text and fails before the camera manager is created: the        *)
(* manager is never created or started, the handler is not installed, no     *)
(* step of run() executes, no session exists, exec() is never entered, and   *)
(* main() returns 0 for help and EXIT_FAILURE for the empty set.             *)
C15_UsageShortCircuit ==
    pc # "init" /\ valid(options_) /\ (empty(options_) \/ isSet(options_, "help")) =>
        /\ usagePrinted
        /\ pc \in {"initFailed", "done"}
        /\ cm_ = "null" /\ cmStarted = 0 /\ cmStopped = 0
        /\ ~sigInstalled
        /\ session = "null" /\ sessionStarted = 0
        /\ loopEntered = 0
        /\ pc = "done" =>
               exitStatus = IF empty(options_) THEN EXIT_FAILURE ELSE 0

(* help was asked for together with a camera and a capture: exit 0 *)
C15_Witness ==
    /\ pc = "done"
    /\ isSet(options_, "help")
    /\ isSet(options_, "camera")
    /\ isSet(options_, "capture")
    /\ usagePrinted
    /\ exitStatus = 0

-----------------------------------------------------------------------------
(* C12: in a run that captures without monitoring and receives no signal,    *)
(* every completion notification reduces the counter by one; no exit request *)
(* is pending before the notification that takes the counter from 1 to 0;    *)
(* that notification posts exit(0) and exec() then returns with code 0; the  *)
(* session is stopped exactly once and main() returns 0.                     *)
C12_CaptureOnlyCompletes ==
    /\ [](sessionStarted = 1 /\ ~isSet(options_, "monitor") /\ signals = 0 =>
            /\ pc = "loop" /\ ~reachedZero => ~exit_
            /\ reachedZero => exitCode_ = {0}
            /\ loopReturned = 1 => reachedZero
            /\ sessionStopped <= 1
            /\ loopReturned = 1 /\ runReturned => sessionStopped = 1
            /\ loopReturned = 1 /\ pc = "done" => exitStatus = 0)
    /\ [][completions' = completions + 1 => loopUsers_' = loopUsers_ - 1]_vars
    /\ [][~reachedZero /\ reachedZero' => loopUsers_ = 1 /\ loopUsers_' = 0 /\ exit_']_vars
    /\ (sessionStarted = 1 /\ ~isSet(options_, "monitor") /\ reachedZero
            ~> loopReturned = 1)

(* one notification took the counter from 1 to 0 and the run ended *)
C12_Witness ==
    /\ pc = "done"
    /\ sessionStarted = 1
    /\ ~isSet(options_, "monitor")
    /\ signals = 0
    /\ completions = 1
    /\ reachedZero
    /\ loopReturned = 1
    /\ exitCode_ = {0}
    /\ sessionStopped = 1
    /\ exitStatus = 0

-----------------------------------------------------------------------------
(* C16 as stated: session->stop() has been called exactly once on every path *)
(* on which run() returns.                                                   *)
C16_StopOnEveryPath ==
    runReturned => sessionStopped = 1

(* C16 as amended: session->stop() is called at most once, only in step 6,   *)
(* and on the paths on which run() returns it has been called exactly once   *)
(* if the session was started and not at all otherwise (capture not          *)
(* requested, or the plan aborted).                                          *)
C16_StopIffStarted ==
    /\ sessionStopped <= 1
    /\ sessionStopped = 1 => runReturned
    /\ runReturned => sessionStopped = sessionStarted
    /\ planFailed => sessionStopped = 0

(* a started capture that a signal ended, stopped once *)
C16_Witness ==
    /\ runReturned
    /\ sessionStarted = 1
    /\ sessionStopped = 1
    /\ signalsInLoop > 0
    /\ ~reachedZero

-----------------------------------------------------------------------------
(* only the list option is set *)
listOnly(o) ==
    valid(o) /\ \A n \in OptionNames : isSet(o, n) <=> n = "list"

(* C17: in a run that only lists the cameras, run() does not fail, no        *)
(* session is constructed, started or stopped, the counter stays 0, exec()   *)
(* is never entered, and main() returns 0 after the manager was stopped.     *)
C17_ListOnlyStartsNothing ==
    sigInstalled /\ listOnly(options_) =>
        /\ session = "null" /\ sessionStarted = 0 /\ sessionStopped = 0
        /\ ~hotplug
        /\ ret = 0
        /\ loopUsers_ = 0
        /\ loopEntered = 0
        /\ pc = "done" => exitStatus = 0 /\ cmStopped = 1

-----------------------------------------------------------------------------
(* C18: captureDone is connected before the session is started, and the      *)
(* counter is incremented in step 4 exactly when session->start() succeeded: *)
(* a start finds the notification connected, a successful start counts one,  *)
(* a failed start leaves the counter as it was, and no notification is       *)
(* delivered while unconnected.                                              *)
C18_ConnectStartCount ==
    /\ [](sessionStarted > 0 \/ completions > 0 => connected)
    /\ [][pc = "startCapture" =>
            /\ sessionStarted' = sessionStarted + 1 =>
                   connected /\ loopUsers_' = loopUsers_ + 1
            /\ sessionStarted' = sessionStarted => loopUsers_' = loopUsers_]_vars

(* session->start() has failed on a connected session and run() has returned *)
C18_Witness ==
    /\ pc = "cleanup"
    /\ startFailed
    /\ connected
    /\ ret # 0

-----------------------------------------------------------------------------
(* C19: the counter is 0 when the plan begins, so at the wait point it is    *)
(* the number of activities started in steps 4-5; it is never incremented    *)
(* once exec() has been entered; and a run that requests neither capture nor *)
(* monitoring never enters exec().                                           *)
C19_CounterStartsAtZero ==
    /\ [](/\ pc \in {"list", "createSession", "printInfo", "startCapture"} =>
                 loopUsers_ = 0
          /\ pc = "wait" =>
                 loopUsers_ = sessionStarted + (IF hotplug THEN 1 ELSE 0)
          /\ sigInstalled /\ ~isSet(options_, "capture")
                 /\ ~isSet(options_, "monitor") => loopEntered = 0)
    /\ [][loopEntered = 1 => loopUsers_' <= loopUsers_]_vars

-----------------------------------------------------------------------------
(* C20: in a run that captures without monitoring and receives no signal,    *)
(* once the session has delivered a completion notification the exit         *)
(* request has been posted, so that exec() returns, and the run ends with    *)
(* the session stopped, the manager stopped and exit status 0.               *)
C20_CompletionEndsCaptureRun ==
    sessionStarted = 1 /\ ~isSet(options_, "monitor") /\ signals = 0
            /\ completions >= 1 =>
        /\ reachedZero
        /\ pc = "loop" => exit_
        /\ pc = "done" => sessionStopped = 1 /\ cmStopped = 1 /\ exitStatus = 0

=============================================================================
